---- MODULE Spec2Model ----
(***************************************************************************)
(* Model of the file uploader of sucepass/test.                            *)
(*                                                                         *)
(*   - Spec: the client upload scheduler of                                *)
(*     src/src/components/FileUploader.tsx (uploadQueue, activeUploads,    *)
(*     the per-file status fields, the XMLHttpRequest transfers in flight);*)
(*   - ProgressSpec, PercentSpec, RejectedSpec: the same scheduler with    *)
(*     the transfers' progress events, with progress events of any size,  *)
(*     and with transfers the server rejects;                              *)
(*   - SettlingSpec: the scheduler under fairness of the transfers;       *)
(*   - ServerSpec, WorkingSpec: the POST /api/upload handler of            *)
(*     src/server/index.js, the latter with bucket and database working;   *)
(*   - FilesSpec: the GET /api/files handler among the uploads.            *)
(*                                                                         *)
(* JavaScript runs every event handler to completion, so each handler and  *)
(* each XHR callback (with the promise continuation that follows it in the *)
(* microtask queue) is one action; on the server every `await` is a point  *)
(* where another request's step may run.                                   *)
(***************************************************************************)
EXTENDS Integers, Sequences, FiniteSets, TLC

\* ------------------------------------------------------------------ bounds
NumFiles == 3
TotalBytes == 1
MaxRetryCount == 3
MaxInFlight == 3
NumRequests == 2
MaxClock == 1
MaxParam == 2

\* ------------------------------------------------------- program constants
MAX_CONCURRENT_UPLOADS == 2
MAX_RETRIES == 3

FileIds == 1..NumFiles

\* The reasons a transfer is rejected with: xhr.onerror ("network"), and
\* xhr.onload with a status outside 200..299.
Failures == {"network", "http4xx"}

VARIABLES
    files,          \* React state `files`: the File objects listed, in order
    status,         \* file.status ("undefined" before the file is selected)
    progress,       \* file.progress
    error,          \* file.error ("undefined" when not set)
    retryCount,     \* file.retryCount
    uploadQueue,    \* uploadQueue.current
    activeUploads,  \* activeUploads.current
    xhr,            \* xhr[f][l]: number of transfers of f in flight whose
                    \* last progress event reported l bytes loaded
    chain,          \* history: automatic requeues of f in a row, since the
                    \* user last acted on f
    req,            \* the POST /api/upload requests, each with its position
    dbConnected,    \* mongoose.connection is open
    blobs,          \* the keys stored in the bucket
    records,        \* the `filename` of every document of the File collection
    clock,          \* Date.now()
    get             \* the GET /api/files request, with its position

clientVars == <<files, status, progress, error, retryCount, uploadQueue,
                activeUploads, xhr, chain>>
serverVars == <<req, dbConnected, blobs, records, clock, get>>
vars == <<files, status, progress, error, retryCount, uploadQueue,
          activeUploads, xhr, chain, req, dbConnected, blobs, records, clock,
          get>>

\* ----------------------------------------------------------------- helpers
Range(s) == {s[i] : i \in 1..Len(s)}

RECURSIVE Filter(_, _)
\* Array.prototype.filter for a predicate given as the set of kept elements
Filter(s, keep) ==
    IF s = <<>> THEN <<>>
    ELSE IF Head(s) \in keep THEN <<Head(s)>> \o Filter(Tail(s), keep)
    ELSE Filter(Tail(s), keep)

RECURSIVE Occurrences(_, _)
Occurrences(s, f) ==
    IF s = <<>> THEN 0
    ELSE (IF Head(s) = f THEN 1 ELSE 0) + Occurrences(Tail(s), f)

RECURSIVE SumTo(_, _)
SumTo(g, n) == IF n < 0 THEN 0 ELSE g[n] + SumTo(g, n - 1)

\* transfers of file f in flight, in the transfers x
InFlightIn(x, f) == SumTo(x[f], TotalBytes)
InFlight(f) == InFlightIn(xhr, f)

RECURSIVE SumFiles(_, _)
SumFiles(x, n) == IF n = 0 THEN 0 ELSE InFlightIn(x, n) + SumFiles(x, n - 1)

\* transfers in flight: uploadFile started, its outcome not yet processed
InFlightTotalIn(x) == SumFiles(x, NumFiles)
InFlightTotal == InFlightTotalIn(xhr)

\* Math.round((loaded / total) * 100), for 0 <= loaded <= total, total > 0
RoundPercent(loaded, total) == (200 * loaded + total) \div (2 * total)

\* ------------------------------------------------------------ processQueue
\* processQueue with an `if` in place of its `while`
processQueue_Once(q, active, started) ==
    IF active < MAX_CONCURRENT_UPLOADS /\ Len(q) > 0
    THEN [queue |-> Tail(q), active |-> active + 1,
          started |-> Append(started, Head(q))]
    ELSE [queue |-> q, active |-> active, started |-> started]

RECURSIVE processQueue(_, _, _)
\* the while loop of processQueue: the queue and counter it leaves and the
\* files it called uploadFile on, in order
processQueue(q, active, started) ==
    IF active < MAX_CONCURRENT_UPLOADS /\ Len(q) > 0
    THEN processQueue(Tail(q), active + 1, Append(started, Head(q)))
    ELSE [queue |-> q, active |-> active, started |-> started]

\* uploadFile up to its await, for each file of `started`
StartStatus(st, started) ==
    [f \in FileIds |-> IF f \in Range(started) THEN "uploading" ELSE st[f]]
StartProgress(pr, started) ==
    [f \in FileIds |-> IF f \in Range(started) THEN 0 ELSE pr[f]]
StartXhr(x, started) ==
    [f \in FileIds |-> [x[f] EXCEPT ![0] = @ + Occurrences(started, f)]]

\* --------------------------------------------------------------------- Init
ClientInit ==
    /\ files = <<>>
    /\ status = [f \in FileIds |-> "undefined"]
    /\ progress = [f \in FileIds |-> 0]
    /\ error = [f \in FileIds |-> "undefined"]
    /\ retryCount = [f \in FileIds |-> 0]
    /\ uploadQueue = <<>>
    /\ activeUploads = 0
    /\ xhr = [f \in FileIds |-> [l \in 0..TotalBytes |-> 0]]
    /\ chain = [f \in FileIds |-> 0]

\* ----------------------------------------------------------- client actions
\* onDrop with one accepted file: a File object not seen before
onDrop(f) ==
    /\ status[f] = "undefined"
    /\ \A g \in FileIds : g < f => status[g] # "undefined"
    /\ files' = Append(files, f)
    /\ status' = [status EXCEPT ![f] = "pending"]
    /\ progress' = [progress EXCEPT ![f] = 0]
    /\ retryCount' = [retryCount EXCEPT ![f] = 0]
    /\ UNCHANGED <<error, uploadQueue, activeUploads, xhr, chain>>
    /\ UNCHANGED serverVars

\* handleRemove as it would be if removing a file in flight gave its slot back
handleRemove_FreesSlot(f) ==
    /\ f \in Range(files)
    /\ files' = Filter(files, FileIds \ {f})
    /\ uploadQueue' = Filter(uploadQueue, FileIds \ {f})
    /\ activeUploads' = IF InFlight(f) > 0 THEN activeUploads - 1
                        ELSE activeUploads
    /\ UNCHANGED <<status, progress, error, retryCount, xhr, chain>>
    /\ UNCHANGED serverVars

\* handleRemove(file): the Remove button of a listed file
handleRemove(f) ==
    /\ f \in Range(files)
    /\ files' = Filter(files, FileIds \ {f})
    /\ uploadQueue' = Filter(uploadQueue, FileIds \ {f})
    /\ UNCHANGED <<status, progress, error, retryCount, activeUploads, xhr,
                   chain>>
    /\ UNCHANGED serverVars

\* the files handleUpload puts in the queue
Eligible == {f \in FileIds : status[f] \in {"pending", "failed"}}

\* handleUpload: the Upload button (disabled while no file is listed)
handleUpload ==
    LET q0 == Filter(files, Eligible)
        r == processQueue(q0, 0, <<>>)
    IN  /\ Len(files) > 0
        /\ InFlightTotal + Len(r.started) <= MaxInFlight
        /\ uploadQueue' = r.queue
        /\ activeUploads' = r.active
        /\ status' = StartStatus(status, r.started)
        /\ progress' = StartProgress(progress, r.started)
        /\ xhr' = StartXhr(xhr, r.started)
        /\ chain' = [f \in FileIds |-> IF f \in Range(q0) THEN 0 ELSE chain[f]]
        /\ UNCHANGED <<files, error, retryCount>>
        /\ UNCHANGED serverVars

\* handleRetry with `unshift` in place of `push`
handleRetry_Unshift(f) ==
    /\ f \in Range(files)
    /\ status[f] = "failed"
    /\ retryCount[f] < MaxRetryCount
    /\ error' = [error EXCEPT ![f] = "undefined"]
    /\ retryCount' = [retryCount EXCEPT ![f] = @ + 1]
    /\ chain' = [chain EXCEPT ![f] = 0]
    /\ IF activeUploads < MAX_CONCURRENT_UPLOADS
       THEN /\ InFlightTotal + 1 <= MaxInFlight
            /\ activeUploads' = activeUploads + 1
            /\ status' = [status EXCEPT ![f] = "uploading"]
            /\ progress' = [progress EXCEPT ![f] = 0]
            /\ xhr' = StartXhr(xhr, <<f>>)
            /\ UNCHANGED uploadQueue
       ELSE /\ status' = [status EXCEPT ![f] = "pending"]
            /\ uploadQueue' = <<f>> \o uploadQueue
            /\ UNCHANGED <<activeUploads, progress, xhr>>
    /\ UNCHANGED files
    /\ UNCHANGED serverVars

\* handleRetry(file): the Retry button, rendered while file.status is 'failed'
handleRetry(f) ==
    /\ f \in Range(files)
    /\ status[f] = "failed"
    /\ retryCount[f] < MaxRetryCount
    /\ error' = [error EXCEPT ![f] = "undefined"]
    /\ retryCount' = [retryCount EXCEPT ![f] = @ + 1]
    /\ chain' = [chain EXCEPT ![f] = 0]
    /\ IF activeUploads < MAX_CONCURRENT_UPLOADS
       THEN /\ InFlightTotal + 1 <= MaxInFlight
            /\ activeUploads' = activeUploads + 1
            /\ status' = [status EXCEPT ![f] = "uploading"]
            /\ progress' = [progress EXCEPT ![f] = 0]
            /\ xhr' = StartXhr(xhr, <<f>>)
            /\ UNCHANGED uploadQueue
       ELSE /\ status' = [status EXCEPT ![f] = "pending"]
            /\ uploadQueue' = Append(uploadQueue, f)
            /\ UNCHANGED <<activeUploads, progress, xhr>>
    /\ UNCHANGED files
    /\ UNCHANGED serverVars

\* xhr.upload.onprogress of a transfer of f that had reported l bytes and now
\* reports l2 (event.lengthComputable, event.total = TotalBytes)
onprogress(f, l, l2) ==
    /\ xhr[f][l] > 0
    /\ l2 >= l
    /\ xhr' = [xhr EXCEPT ![f] = [l3 \in 0..TotalBytes |->
                   xhr[f][l3] - (IF l3 = l THEN 1 ELSE 0)
                              + (IF l3 = l2 THEN 1 ELSE 0)]]
    /\ progress' = [progress EXCEPT ![f] = RoundPercent(l2, TotalBytes)]
    /\ UNCHANGED <<files, status, error, retryCount, uploadQueue,
                   activeUploads, chain>>
    /\ UNCHANGED serverVars

\* the values of event.total and event.loaded of the progress events below
Totals == {1, 3, 1000}
Loaded(total) == {0, 1, total - 1, total}

\* xhr.upload.onprogress of a transfer of f, for an event of any size
\* (event.lengthComputable; the bytes the transfer reported are not tracked)
onprogressEvent(f, loaded, total) ==
    /\ InFlight(f) > 0
    /\ progress' = [progress EXCEPT ![f] = RoundPercent(loaded, total)]
    /\ UNCHANGED <<files, status, error, retryCount, uploadQueue,
                   activeUploads, xhr, chain>>
    /\ UNCHANGED serverVars

\* the finally block of uploadFile, for the transfer of f that had reported l
\* bytes: activeUploads.current--, then processQueue() on the queue q, with
\* st and pr the status and progress fields the try or catch block left
Finally(f, l, st, pr, q) ==
    LET r == processQueue(q, activeUploads - 1, <<>>)
    IN  /\ InFlightTotal - 1 + Len(r.started) <= MaxInFlight
        /\ uploadQueue' = r.queue
        /\ activeUploads' = r.active
        /\ status' = StartStatus(st, r.started)
        /\ progress' = StartProgress(pr, r.started)
        /\ xhr' = StartXhr([xhr EXCEPT ![f][l] = @ - 1], r.started)

\* xhr.onload with a 2xx status, then the finally block of uploadFile
onloadSuccess(f, l) ==
    /\ xhr[f][l] > 0
    /\ Finally(f, l, [status EXCEPT ![f] = "completed"],
               [progress EXCEPT ![f] = 100], uploadQueue)
    /\ chain' = [chain EXCEPT ![f] = 0]
    /\ UNCHANGED <<files, error, retryCount>>
    /\ UNCHANGED serverVars

\* the condition of the catch block under which the file is queued again:
\* file.retryCount && file.retryCount < MAX_RETRIES
ShouldRequeue(rc) == rc # 0 /\ rc < MAX_RETRIES

\* uploadFailed without the `file.retryCount++` of its catch block
uploadFailed_NoIncrement(f, l, why) ==
    /\ xhr[f][l] > 0
    /\ error' = [error EXCEPT ![f] = why]
    /\ LET requeue == ShouldRequeue(retryCount[f])
       IN  /\ retryCount' = retryCount
           /\ chain' = chain
           /\ Finally(f, l, [status EXCEPT ![f] = "failed"], progress,
                      IF requeue THEN Append(uploadQueue, f) ELSE uploadQueue)
    /\ UNCHANGED files
    /\ UNCHANGED serverVars

\* xhr.onerror, or xhr.onload with a status outside 200..299: the promise is
\* rejected, then the catch and finally blocks of uploadFile
uploadFailed(f, l, why) ==
    /\ xhr[f][l] > 0
    /\ error' = [error EXCEPT ![f] = why]
    /\ LET requeue == ShouldRequeue(retryCount[f])
       IN  /\ retryCount' = [retryCount EXCEPT
                                ![f] = IF requeue THEN @ + 1 ELSE @]
           /\ chain' = [chain EXCEPT ![f] = IF requeue THEN @ + 1 ELSE @]
           /\ Finally(f, l, [status EXCEPT ![f] = "failed"], progress,
                      IF requeue THEN Append(uploadQueue, f) ELSE uploadQueue)
    /\ UNCHANGED files
    /\ UNCHANGED serverVars

\* The scheduler under the user's actions and the transfers' outcomes. A
\* rejected transfer takes the same path through the catch block whatever the
\* reason, which only file.error records: here every failure is a network
\* failure, the kind the specification calls retryable.
SchedulerNext ==
    \/ \E f \in FileIds : onDrop(f)
    \/ \E f \in FileIds : handleRemove(f)
    \/ handleUpload
    \/ \E f \in FileIds : handleRetry(f)
    \/ \E f \in FileIds : \E l \in 0..TotalBytes : onloadSuccess(f, l)
    \/ \E f \in FileIds : \E l \in 0..TotalBytes : uploadFailed(f, l, "network")

\* The transfers with their progress events, for files that stay listed.
ProgressNext ==
    \/ \E f \in FileIds : onDrop(f)
    \/ handleUpload
    \/ \E f \in FileIds : handleRetry(f)
    \/ \E f \in FileIds : \E l, l2 \in 0..TotalBytes : onprogress(f, l, l2)
    \/ \E f \in FileIds : \E l \in 0..TotalBytes : onloadSuccess(f, l)
    \/ \E f \in FileIds : \E l \in 0..TotalBytes : uploadFailed(f, l, "network")

\* The progress events of transfers of any size, up to their success.
PercentNext ==
    \/ \E f \in FileIds : onDrop(f)
    \/ handleUpload
    \/ \E f \in FileIds : \E total \in Totals : \E loaded \in Loaded(total) :
           onprogressEvent(f, loaded, total)
    \/ \E f \in FileIds : \E l \in 0..TotalBytes : onloadSuccess(f, l)

\* The scheduler when the server answers the failing transfers with a 4xx
\* status, for files that stay listed.
RejectedNext ==
    \/ \E f \in FileIds : onDrop(f)
    \/ handleUpload
    \/ \E f \in FileIds : handleRetry(f)
    \/ \E f \in FileIds : \E l \in 0..TotalBytes : onloadSuccess(f, l)
    \/ \E f \in FileIds : \E l \in 0..TotalBytes : uploadFailed(f, l, "http4xx")

\* ------------------------------------------------------------------- server
ReqIds == 1..NumRequests
Names == {"a.txt"}

\* multer's limits.fileSize, in bytes
MAX_UPLOAD_BYTES == 10485760
Sizes == {MAX_UPLOAD_BYTES, MAX_UPLOAD_BYTES + 1}

allowedMimeTypes ==
    {"image/jpg", "image/jpeg", "image/png", "image/gif", "application/pdf",
     "application/msword",
     "application/vnd.openxmlformats-officedocument.wordprocessingml.document",
     "text/plain"}
\* the declared content types of the requests: two of the list, one outside
MimeTypes == {"image/jpg", "image/png", "text/html"}

NoResponse == [status |-> 0, error |-> "none"]

\* errorHandler(err, req, res, next): the response for an error named `name`
errorHandler(name) ==
    IF name = "MulterError:LIMIT_FILE_SIZE"
        THEN [status |-> 400, error |-> "File size too large"]
    ELSE IF name = "MulterError"
        THEN [status |-> 400, error |-> "File upload error"]
    ELSE IF name = "S3Error"
        THEN [status |-> 500, error |-> "Storage error"]
    ELSE IF name \in {"MongoServerError", "MongooseError"}
        THEN [status |-> 500, error |-> "Database error"]
    ELSE [status |-> 500, error |-> "Internal server error"]

\* no GET /api/files request yet
NoGet == [pc |-> "idle", page |-> 0, limit |-> 0, stored |-> {},
          files |-> <<>>, found |-> FALSE, total |-> -1, status |-> 0,
          pages |-> 0, quiet |-> FALSE]

ServerInit ==
    /\ req = [r \in ReqIds |->
                 [pc |-> "idle", name |-> "none", size |-> 0, mime |-> "none",
                  key |-> <<>>, uploadDate |-> 0, err |-> "none",
                  putOk |-> FALSE, saveFailed |-> FALSE,
                  deleteIssued |-> FALSE, response |-> NoResponse]]
    /\ dbConnected = FALSE
    /\ blobs = {}
    /\ records = {}
    /\ clock = 0
    /\ get = NoGet

\* upload.single('file') without its fileFilter
receive_Unfiltered(r, name, size, mime) ==
    /\ req[r].pc = "idle"
    /\ req' = [req EXCEPT ![r] =
           IF size > MAX_UPLOAD_BYTES
               THEN [@ EXCEPT !.pc = "done", !.name = name, !.size = size,
                       !.mime = mime, !.err = "MulterError:LIMIT_FILE_SIZE",
                       !.response = errorHandler("MulterError:LIMIT_FILE_SIZE")]
           ELSE [@ EXCEPT !.pc = "connect", !.name = name, !.size = size,
                   !.mime = mime]]
    /\ UNCHANGED <<dbConnected, blobs, records, clock>>
    /\ UNCHANGED <<get, clientVars>>

\* upload.single('file'): multer calls fileFilter on the part's header, then
\* reads the part's bytes against limits.fileSize; either error goes to
\* errorHandler and the route's handler does not run
receive(r, name, size, mime) ==
    /\ req[r].pc = "idle"
    /\ req' = [req EXCEPT ![r] =
           IF mime \notin allowedMimeTypes
               THEN [@ EXCEPT !.pc = "done", !.name = name, !.size = size,
                       !.mime = mime, !.err = "Error",
                       !.response = errorHandler("Error")]
           ELSE IF size > MAX_UPLOAD_BYTES
               THEN [@ EXCEPT !.pc = "done", !.name = name, !.size = size,
                       !.mime = mime, !.err = "MulterError:LIMIT_FILE_SIZE",
                       !.response = errorHandler("MulterError:LIMIT_FILE_SIZE")]
           ELSE [@ EXCEPT !.pc = "connect", !.name = name, !.size = size,
                   !.mime = mime]]
    /\ UNCHANGED <<dbConnected, blobs, records, clock>>
    /\ UNCHANGED <<get, clientVars>>

\* await connectWithRetry(), then the code up to s3Client.send(command)
connect(r, ok) ==
    /\ req[r].pc = "connect"
    /\ IF ok
       THEN /\ dbConnected' = TRUE
            /\ req' = [req EXCEPT ![r].pc = "put",
                                  ![r].key = <<clock, req[r].name>>]
       ELSE /\ req' = [req EXCEPT ![r].pc = "outerClose",
                                  ![r].err = "MongooseServerSelectionError"]
            /\ UNCHANGED dbConnected
    /\ UNCHANGED <<blobs, records, clock>>
    /\ UNCHANGED <<get, clientVars>>

\* await s3Client.send(new PutObjectCommand(...)), then new File({...}), whose
\* uploadDate defaults to Date.now()
put(r, ok) ==
    /\ req[r].pc = "put"
    /\ IF ok
       THEN /\ blobs' = blobs \cup {req[r].key}
            /\ req' = [req EXCEPT ![r].pc = "save", ![r].putOk = TRUE,
                                  ![r].uploadDate = clock]
       ELSE /\ req' = [req EXCEPT ![r].pc = "cleanup",
                                  ![r].err = "S3ServiceException"]
            /\ UNCHANGED blobs
    /\ UNCHANGED <<dbConnected, records, clock>>
    /\ UNCHANGED <<get, clientVars>>

\* await fileDoc.save(): it succeeds only over an open connection
save(r, ok) ==
    /\ req[r].pc = "save"
    /\ IF ok
       THEN /\ dbConnected
            /\ records' = records \cup {[filename |-> req[r].key, id |-> r,
                                          uploadDate |-> req[r].uploadDate]}
            /\ req' = [req EXCEPT ![r].pc = "close"]
       ELSE /\ req' = [req EXCEPT ![r].pc = "cleanup",
                                  ![r].saveFailed = TRUE,
                                  ![r].err = IF dbConnected
                                             THEN "MongoServerError"
                                             ELSE "MongooseError"]
            /\ UNCHANGED records
    /\ UNCHANGED <<dbConnected, blobs, clock>>
    /\ UNCHANGED <<get, clientVars>>

\* await mongoose.connection.close(), then res.json({success: true, ...})
close(r, ok) ==
    /\ req[r].pc = "close"
    /\ IF ok
       THEN /\ dbConnected' = FALSE
            /\ req' = [req EXCEPT ![r].pc = "done",
                          ![r].response = [status |-> 200, error |-> "none"]]
       ELSE /\ req' = [req EXCEPT ![r].pc = "cleanup",
                                  ![r].err = "MongoNetworkError"]
            /\ UNCHANGED dbConnected
    /\ UNCHANGED <<blobs, records, clock>>
    /\ UNCHANGED <<get, clientVars>>

\* the catch block without its DeleteObjectCommand
cleanupDelete_Skipped(r, ok) ==
    /\ req[r].pc = "cleanup"
    /\ req' = [req EXCEPT ![r].pc = "cleanupClose"]
    /\ UNCHANGED <<dbConnected, blobs, records, clock>>
    /\ UNCHANGED <<get, clientVars>>

\* catch (s3Error): await s3Client.send(new DeleteObjectCommand(...)), whose
\* own failure is logged and dropped
cleanupDelete(r, ok) ==
    /\ req[r].pc = "cleanup"
    /\ req' = [req EXCEPT ![r].pc = "cleanupClose", ![r].deleteIssued = TRUE]
    /\ blobs' = IF ok THEN blobs \ {req[r].key} ELSE blobs
    /\ UNCHANGED <<dbConnected, records, clock>>
    /\ UNCHANGED <<get, clientVars>>

\* catch (s3Error): await mongoose.connection.close(); throw s3Error
cleanupClose(r, ok) ==
    /\ req[r].pc = "cleanupClose"
    /\ IF ok
       THEN /\ dbConnected' = FALSE
            /\ req' = [req EXCEPT ![r].pc = "outerClose"]
       ELSE /\ req' = [req EXCEPT ![r].pc = "outerClose",
                                  ![r].err = "MongoNetworkError"]
            /\ UNCHANGED dbConnected
    /\ UNCHANGED <<blobs, records, clock>>
    /\ UNCHANGED <<get, clientVars>>

\* the outer catch: close the connection (a failure is logged and dropped),
\* then next(error), which errorHandler answers
outerClose(r, ok) ==
    /\ req[r].pc = "outerClose"
    /\ dbConnected' = IF ok THEN FALSE ELSE dbConnected
    /\ req' = [req EXCEPT ![r].pc = "done",
                          ![r].response = errorHandler(req[r].err)]
    /\ UNCHANGED <<blobs, records, clock>>
    /\ UNCHANGED <<get, clientVars>>

\* Date.now() advances
tick ==
    /\ clock < MaxClock
    /\ clock' = clock + 1
    /\ UNCHANGED <<req, dbConnected, blobs, records>>
    /\ UNCHANGED <<get, clientVars>>

\* ----------------------------------------------------------- GET /api/files
\* parseInt(req.query.page) || 1 and parseInt(req.query.limit) || 10, for a
\* parameter that is a number (0 also stands for a missing one)
PageOf(p) == IF p = 0 THEN 1 ELSE p
LimitOf(l) == IF l = 0 THEN 10 ELSE l

\* the orders .sort({uploadDate: -1}) may return the documents S in
SortedDesc(S) ==
    {o \in [1..Cardinality(S) -> S] :
        /\ \A i, j \in 1..Cardinality(S) : i # j => o[i] # o[j]
        /\ \A i, j \in 1..Cardinality(S) :
               i < j => o[i].uploadDate >= o[j].uploadDate}

\* .skip(skip).limit(limit) of the documents o
SkipLimit(o, skip, limit) ==
    [i \in 1..(IF Len(o) - skip < 0 THEN 0
               ELSE IF Len(o) - skip < limit THEN Len(o) - skip ELSE limit)
        |-> o[skip + i]]

\* Math.ceil(total / limit)
Pages(total, limit) == (total + limit - 1) \div limit

\* res.json({files, pagination}) once both queries of Promise.all resolved
Respond(g) ==
    IF g.found /\ g.total >= 0
    THEN [g EXCEPT !.pc = "done", !.status = 200,
                   !.pages = Pages(g.total, g.limit),
                   !.quiet = (records = g.stored)]
    ELSE g

\* a query of a model of a connection that is not open: mongoose buffers it
\* and rejects it when the buffering times out; next(error), errorHandler
QueryTimeout(g) ==
    [g EXCEPT !.pc = "done", !.status = errorHandler("MongooseError").status,
              !.quiet = (records = g.stored)]

\* the handler up to its await: both queries are issued
getFiles(p, l) ==
    /\ get.pc = "idle"
    /\ get' = [get EXCEPT !.pc = "query", !.page = PageOf(p),
                          !.limit = LimitOf(l), !.stored = records]
    /\ UNCHANGED <<req, dbConnected, blobs, records, clock>>
    /\ UNCHANGED clientVars

\* File.find().sort({uploadDate: -1}).skip(skip).limit(limit) settles
find ==
    /\ get.pc = "query"
    /\ ~get.found
    /\ IF dbConnected
       THEN \E o \in SortedDesc(records) :
                get' = Respond([get EXCEPT
                           !.found = TRUE,
                           !.files = SkipLimit(o, (get.page - 1) * get.limit,
                                               get.limit)])
       ELSE get' = QueryTimeout(get)
    /\ UNCHANGED <<req, dbConnected, blobs, records, clock>>
    /\ UNCHANGED clientVars

\* File.countDocuments() settles
countDocuments ==
    /\ get.pc = "query"
    /\ get.total < 0
    /\ IF dbConnected
       THEN get' = Respond([get EXCEPT !.total = Cardinality(records)])
       ELSE get' = QueryTimeout(get)
    /\ UNCHANGED <<req, dbConnected, blobs, records, clock>>
    /\ UNCHANGED clientVars

UploadNext ==
    \/ \E r \in ReqIds : \E name \in Names : \E size \in Sizes :
           \E mime \in MimeTypes : receive(r, name, size, mime)
    \/ \E r \in ReqIds : \E ok \in BOOLEAN : connect(r, ok)
    \/ \E r \in ReqIds : \E ok \in BOOLEAN : put(r, ok)
    \/ \E r \in ReqIds : \E ok \in BOOLEAN : save(r, ok)
    \/ \E r \in ReqIds : \E ok \in BOOLEAN : close(r, ok)
    \/ \E r \in ReqIds : \E ok \in BOOLEAN : cleanupDelete(r, ok)
    \/ \E r \in ReqIds : \E ok \in BOOLEAN : cleanupClose(r, ok)
    \/ \E r \in ReqIds : \E ok \in BOOLEAN : outerClose(r, ok)
    \/ tick

\* The uploads when the bucket and the database work: a step fails only
\* where the code makes it fail, fileDoc.save() over a connection that
\* another request has closed.
WorkingNext ==
    \/ \E r \in ReqIds : \E name \in Names : \E size \in Sizes :
           \E mime \in MimeTypes : receive(r, name, size, mime)
    \/ \E r \in ReqIds : connect(r, TRUE)
    \/ \E r \in ReqIds : put(r, TRUE)
    \/ \E r \in ReqIds : save(r, dbConnected)
    \/ \E r \in ReqIds : close(r, TRUE)
    \/ \E r \in ReqIds : cleanupDelete(r, TRUE)
    \/ \E r \in ReqIds : cleanupClose(r, TRUE)
    \/ \E r \in ReqIds : outerClose(r, TRUE)
    \/ tick

\* One listing request among the uploads, up to the point where an upload
\* fails (the catch blocks are left out).
FilesNext ==
    \/ \E r \in ReqIds : \E name \in Names : \E size \in Sizes :
           \E mime \in MimeTypes : receive(r, name, size, mime)
    \/ \E r \in ReqIds : \E ok \in BOOLEAN : connect(r, ok)
    \/ \E r \in ReqIds : \E ok \in BOOLEAN : put(r, ok)
    \/ \E r \in ReqIds : \E ok \in BOOLEAN : save(r, ok)
    \/ \E r \in ReqIds : \E ok \in BOOLEAN : close(r, ok)
    \/ tick
    \/ \E p, l \in 0..MaxParam : getFiles(p, l)
    \/ find
    \/ countDocuments

\* ----------------------------------------------------------- specifications
Init == ClientInit /\ ServerInit

Next == SchedulerNext

Spec == Init /\ [][Next]_vars

ProgressSpec == Init /\ [][ProgressNext]_vars

ServerSpec == Init /\ [][UploadNext]_vars

\* the outcome of some transfer is processed
Outcome ==
    \E f \in FileIds : \E l \in 0..TotalBytes :
        onloadSuccess(f, l) \/ uploadFailed(f, l, "network")

\* the user acts
UserAction ==
    \/ \E f \in FileIds : onDrop(f) \/ handleRemove(f) \/ handleRetry(f)
    \/ handleUpload

\* The scheduler for files that stay listed.
SettlingNext ==
    \/ \E f \in FileIds : onDrop(f)
    \/ handleUpload
    \/ \E f \in FileIds : handleRetry(f)
    \/ \E f \in FileIds : \E l \in 0..TotalBytes : onloadSuccess(f, l)
    \/ \E f \in FileIds : \E l \in 0..TotalBytes : uploadFailed(f, l, "network")

\* The scheduler when every transfer ends: the browser calls onload or onerror
\* of every request it sent.
SettlingSpec == Init /\ [][SettlingNext]_vars /\ WF_vars(Outcome)

WorkingSpec == Init /\ [][WorkingNext]_vars

FilesSpec == Init /\ [][FilesNext]_vars

PercentSpec == Init /\ [][PercentNext]_vars

RejectedSpec == Init /\ [][RejectedNext]_vars

\* ------------------------------------------------------------------- claims
\* a file the user removed from the list (the File object lives on in the
\* closures of its transfers)
Removed(f) == status[f] # "undefined" /\ f \notin Range(files)

\* the outcome of a transfer of f is processed in this step
OutcomeOf(f) ==
    \E l \in 0..TotalBytes : onloadSuccess(f, l) \/ uploadFailed(f, l, "network")

\* C1: the number of transfers in flight never exceeds MAX_CONCURRENT_UPLOADS.
C1_InFlightBound == InFlightTotal <= MAX_CONCURRENT_UPLOADS

\* C2: the counter activeUploads stays within 0..MAX_CONCURRENT_UPLOADS.
C2_CounterRange == activeUploads \in 0..MAX_CONCURRENT_UPLOADS

\* C3: a file is never both queued and dispatched, nor queued or dispatched
\* twice, and a listed file that is pending or uploading is queued or
\* dispatched.
C3_QueuedXorDispatched ==
    \A f \in FileIds :
        /\ Occurrences(uploadQueue, f) + InFlight(f) <= 1
        /\ (f \in Range(files) /\ status[f] \in {"pending", "uploading"})
               => Occurrences(uploadQueue, f) + InFlight(f) = 1

\* C4: when a transfer of a listed file fails with a retryable error and the
\* file's retryCount is below MAX_RETRIES, the file is queued or dispatched
\* again by that very step, so that it is transferred again with no user action.
C4_RetryableRequeued ==
    [][\A f \in FileIds :
          ( /\ \E l \in 0..TotalBytes : uploadFailed(f, l, "network")
            /\ retryCount[f] < MAX_RETRIES
            /\ f \in Range(files) )
          => \/ Occurrences(uploadQueue', f) > 0
             \/ InFlightIn(xhr', f) >= InFlight(f)]_vars

\* C5: a file is requeued automatically at most MAX_RETRIES - 1 times in a
\* row, that is it gets at most MAX_RETRIES attempts in a row; and when the
\* last of them fails the file is failed, not queued and not in flight, so that
\* only handleRetry or handleUpload can dispatch it again.
C5_RetryCap ==
    /\ [](\A f \in FileIds : chain[f] <= MAX_RETRIES - 1)
    /\ [][\A f \in FileIds :
             ( /\ \E l \in 0..TotalBytes : uploadFailed(f, l, "network")
               /\ chain[f] = MAX_RETRIES - 1 )
             => /\ status'[f] = "failed"
                /\ Occurrences(uploadQueue', f) = 0
                /\ InFlightIn(xhr', f) = 0
                /\ chain'[f] = chain[f]]_vars

\* C6: a file is completed if and only if its progress is 100.
C6_CompletedIffFull ==
    \A f \in FileIds :
        status[f] # "undefined" => (status[f] = "completed" <=> progress[f] = 100)

\* C7: file.error is set if and only if the file is failed.
C7_ErrorIffFailed ==
    \A f \in FileIds : (error[f] # "undefined") <=> (status[f] = "failed")

\* C8: nothing changes the status of a removed file, queues it or dispatches it.
C8_RemovedIgnored ==
    [][\A f \in FileIds :
          Removed(f) => /\ status'[f] = status[f]
                        /\ Occurrences(uploadQueue', f) = 0
                        /\ InFlightIn(xhr', f) <= InFlight(f)]_vars

\* C9: activeUploads moves with the transfers: up by one for each transfer
\* started and down by one for each outcome processed, also the outcome of a
\* removed file; handleRemove changes neither the counter nor the transfers.
C9_DispatchMatched ==
    [][ /\ (\E f \in FileIds : handleRemove(f))
            => activeUploads' = activeUploads /\ xhr' = xhr
        /\ (\E f \in FileIds : OutcomeOf(f) \/ handleRetry(f))
            => activeUploads' - activeUploads
                   = InFlightTotalIn(xhr') - InFlightTotal
        /\ handleUpload
            => activeUploads' = InFlightTotalIn(xhr') - InFlightTotal ]_vars

\* a removed file's transfer is in flight
C9_Witness == \E f \in FileIds : Removed(f) /\ InFlight(f) > 0

\* C10: a request whose blob write succeeded and whose fileDoc.save() failed
\* has issued the delete of its key once past the cleanup, and is answered
\* with an error, never with the success response.
C10_SaveFailureCompensated ==
    \A r \in ReqIds :
        (req[r].putOk /\ req[r].saveFailed)
            => /\ req[r].pc \in {"cleanup", "cleanupClose", "outerClose", "done"}
               /\ req[r].pc # "cleanup" => req[r].deleteIssued
               /\ req[r].response.status # 200
               /\ req[r].pc = "done" => req[r].response.status >= 400

\* a request whose save failed after its blob write has been answered
C10_Witness ==
    \E r \in ReqIds :
        req[r].pc = "done" /\ req[r].putOk /\ req[r].saveFailed

\* C11: every record of the File collection (each is saved with status
\* 'completed') has its blob in the bucket.
C11_CompletedHasBlob == \A rec \in records : rec.filename \in blobs

\* the allow-list as the specification gives it
SpecAllowList ==
    {"image/jpeg", "image/png", "image/gif", "application/pdf",
     "application/msword",
     "application/vnd.openxmlformats-officedocument.wordprocessingml.document",
     "text/plain"}

\* the request r was rejected: answered with an error, no blob written and no
\* record saved for it
Rejected(r) ==
    /\ req[r].pc = "done"
    /\ req[r].response.status >= 400
    /\ ~req[r].putOk
    /\ \A rec \in records : rec.id # r

FileSizeTooLarge == [status |-> 400, error |-> "File size too large"]

\* C12 as stated: a request larger than 10 MiB or of a type outside the
\* specification's allow-list is rejected, and a request larger than 10 MiB is
\* answered with 400 "File size too large".
C12_InvalidRejected ==
    \A r \in ReqIds :
        req[r].pc # "idle" =>
            /\ (req[r].size > 10 * 1024 * 1024 \/ req[r].mime \notin SpecAllowList)
                   => Rejected(r)
            /\ req[r].size > 10 * 1024 * 1024 => req[r].response = FileSizeTooLarge

\* C12 amended: the allow-list also holds image/jpg, and the answer 400 "File
\* size too large" is that of a request larger than 10 MiB whose type is in
\* the allow-list (the type is checked first).
C12_InvalidRejectedAmended ==
    \A r \in ReqIds :
        req[r].pc # "idle" =>
            /\ ( \/ req[r].size > 10 * 1024 * 1024
                 \/ req[r].mime \notin SpecAllowList \cup {"image/jpg"} )
                   => Rejected(r)
            /\ ( /\ req[r].size > 10 * 1024 * 1024
                 /\ req[r].mime \in SpecAllowList \cup {"image/jpg"} )
                   => req[r].response = FileSizeTooLarge

\* one request was rejected for its size and one for its type
C12_Witness ==
    \E r1, r2 \in ReqIds :
        /\ req[r1].pc = "done" /\ req[r1].response = FileSizeTooLarge
        /\ req[r2].pc = "done" /\ req[r2].mime = "text/html"

RECURSIVE FirstPos(_, _)
\* the position of the first f in s (Len(s) + 1 when there is none)
FirstPos(s, f) ==
    IF s = <<>> \/ Head(s) = f THEN 1 ELSE 1 + FirstPos(Tail(s), f)

\* x waits ahead of y
Ahead(q, x, y) ==
    /\ x # y
    /\ Occurrences(q, x) > 0
    /\ Occurrences(q, y) > 0
    /\ FirstPos(q, x) < FirstPos(q, y)

\* the files handleUpload calls uploadFile on, in order
UploadStarted == processQueue(Filter(files, Eligible), 0, <<>>).started

\* C13: files are dispatched in the order they wait in: a step never
\* dispatches y and leaves x waiting, nor dispatches y before x, nor puts y
\* ahead of x, when x was waiting ahead of y.
C13_FifoAdmission ==
    [][\A x, y \in FileIds :
          (Ahead(uploadQueue, x, y) /\ x \in Range(files') /\ y \in Range(files'))
          => /\ ~Ahead(uploadQueue', y, x)
             /\ Occurrences(uploadQueue', x) > 0
                    => Occurrences(uploadQueue', y) > 0
             /\ handleUpload => ~Ahead(UploadStarted, y, x)]_vars

\* the copies of f waiting or in flight, in the queue q and the transfers x
Copies(q, x, f) == Occurrences(q, f) + InFlightIn(x, f)

\* C14: a transfer the server answers with a 4xx status (not 429) is never
\* followed by an automatic retry: the step that processes it neither queues
\* nor dispatches the file again, and leaves its retryCount alone.
C14_RejectedNotRequeued ==
    [][\A f \in FileIds :
          (\E l \in 0..TotalBytes : uploadFailed(f, l, "http4xx"))
          => /\ Copies(uploadQueue', xhr', f) < Copies(uploadQueue, xhr, f)
             /\ retryCount'[f] = retryCount[f]]_vars

\* the records the listing request is expected to answer with: a page of the
\* documents stored when it arrived, newest first
ExpectedPages ==
    {SkipLimit(o, (get.page - 1) * get.limit, get.limit) :
        o \in SortedDesc(get.stored)}

\* C15: a GET /api/files request during which no record is saved is answered
\* with the records from position (page-1)*limit on, at most limit of them, of
\* the stored records newest first, and with pages = ceil(total / limit).
C15_PageOfRecords ==
    (get.pc = "done" /\ get.quiet)
        => /\ get.status = 200
           /\ get.files \in ExpectedPages
           /\ Len(get.files) =
                  (LET rest == Cardinality(get.stored) - (get.page - 1) * get.limit
                   IN  IF rest < 0 THEN 0
                       ELSE IF rest < get.limit THEN rest ELSE get.limit)
           /\ get.pages * get.limit >= Cardinality(get.stored)
           /\ (get.pages - 1) * get.limit < Cardinality(get.stored)
                  \/ (get.pages = 0 /\ get.stored = {})

\* C16: between two handlers a file waits only while the slots are taken:
\* the queue is empty or activeUploads is MAX_CONCURRENT_UPLOADS, and then at
\* least that many transfers are in flight.
C16_Saturated ==
    uploadQueue # <<>> => /\ activeUploads = MAX_CONCURRENT_UPLOADS
                          /\ InFlightTotal >= MAX_CONCURRENT_UPLOADS

\* a file waits after an outcome has been processed and after a manual retry
C16_Witness ==
    /\ uploadQueue # <<>>
    /\ \E f \in FileIds : status[f] = "completed"
    /\ \E f \in FileIds : retryCount[f] > 0 /\ status[f] = "pending"

\* C17: handleRetry clears file.error; with a free slot it starts the transfer,
\* adds one to activeUploads and leaves the queue as it is; with no free slot
\* it appends the file to the queue and leaves activeUploads and the transfers
\* as they are.
C17_RetryEffect ==
    [][\A f \in FileIds :
          handleRetry(f)
          => /\ error'[f] = "undefined"
             /\ IF activeUploads < MAX_CONCURRENT_UPLOADS
                THEN /\ activeUploads' = activeUploads + 1
                     /\ uploadQueue' = uploadQueue
                     /\ InFlightIn(xhr', f) = InFlight(f) + 1
                     /\ InFlightTotalIn(xhr') = InFlightTotal + 1
                ELSE /\ uploadQueue' = Append(uploadQueue, f)
                     /\ activeUploads' = activeUploads
                     /\ xhr' = xhr]_vars

\* a retried file waits behind another file
C17_Witness ==
    /\ Len(uploadQueue) >= 2
    /\ status[uploadQueue[Len(uploadQueue)]] = "pending"
    /\ retryCount[uploadQueue[Len(uploadQueue)]] > 0
    /\ uploadQueue[1] # uploadQueue[Len(uploadQueue)]

\* C18: a file the catch block queued again (its retryCount went up by one)
\* and that waits in the queue is pending, with progress 0 and no error.
C18_RequeuedIsPending ==
    [][\A f \in FileIds :
          ( /\ \E l \in 0..TotalBytes : uploadFailed(f, l, "network")
            /\ retryCount'[f] = retryCount[f] + 1
            /\ Occurrences(uploadQueue', f) > 0
            /\ Occurrences(uploadQueue, f) = 0 )
          => /\ status'[f] = "pending"
             /\ progress'[f] = 0
             /\ error'[f] = "undefined"]_vars

\* C19: a progress event stores floor(100 * loaded / total), which is below
\* 100 when loaded < total.
C19_TruncatedPercent ==
    [][\A f \in FileIds : \A total \in Totals : \A loaded \in Loaded(total) :
          onprogressEvent(f, loaded, total)
          => /\ progress'[f] = (100 * loaded) \div total
             /\ loaded < total => progress'[f] < 100]_vars

\* C20: while a transfer of a file is in flight, a step that is not the
\* outcome of a transfer of that file leaves its progress within 0..100 and
\* does not lower it.
C20_ProgressMonotone ==
    [][\A f \in FileIds :
          (InFlight(f) > 0 /\ ~OutcomeOf(f))
          => /\ progress'[f] \in 0..100
             /\ progress'[f] >= progress[f]]_vars

\* s is the beginning of t
IsPrefix(s, t) == Len(s) <= Len(t) /\ \A i \in 1..Len(s) : s[i] = t[i]

\* C21: handleUpload appends to the queue: the files that were waiting are
\* still first, in their order, among the files it dispatches and leaves
\* waiting; it adds no file that is uploading or completed; and activeUploads
\* changes only by the transfers it starts.
C21_EnqueueAppends ==
    [][handleUpload
       => /\ IsPrefix(uploadQueue, UploadStarted \o uploadQueue')
          /\ \A f \in FileIds :
                 (status[f] \in {"uploading", "completed"}
                      /\ Occurrences(uploadQueue, f) = 0)
                 => Occurrences(UploadStarted \o uploadQueue', f) = 0
          /\ activeUploads' - activeUploads
                 = InFlightTotalIn(xhr') - InFlightTotal]_vars

\* the request r passed multer's checks
Valid(r) ==
    /\ req[r].pc # "idle"
    /\ req[r].size <= MAX_UPLOAD_BYTES
    /\ req[r].mime \in allowedMimeTypes

\* C22: with the bucket and the database working, a request with a valid
\* file never enters the catch blocks, never issues the delete of its blob and
\* is answered with the success response.
C22_Independent ==
    \A r \in ReqIds :
        Valid(r) => /\ req[r].pc \in {"connect", "put", "save", "close", "done"}
                    /\ ~req[r].deleteIssued
                    /\ req[r].pc = "done" => req[r].response.status = 200

\* C23: two requests never use the same key.
C23_KeyUnique ==
    \A r1, r2 \in ReqIds :
        (r1 # r2 /\ req[r1].key # <<>> /\ req[r2].key # <<>>)
            => req[r1].key # req[r2].key

\* nothing waits, nothing is in flight and every file has its outcome
Quiescent ==
    /\ uploadQueue = <<>>
    /\ InFlightTotal = 0
    /\ \A f \in FileIds : status[f] # "uploading"

====
